---- MODULE Spec2Model ----
(***************************************************************************)
(* Model of the crop-price service: the orchestrator get_crop_prices       *)
(* (crop_price_fetcher.py), the mock data provider (mock_data_provider.py) *)
(* and the pydantic models CropPrice / PriceResponse (models.py).          *)
(*                                                                         *)
(* One invocation of get_crop_prices is a coroutine; its position is pc.   *)
(* The source adapters are the environment of the orchestrator: every      *)
(* adapter call returns a list of records or raises, chosen with \E.       *)
(* The calls the invocation makes (adapter calls, sleeps, mock-provider    *)
(* calls) are recorded in calls, in the order they are made.               *)
(***************************************************************************)
EXTENDS Integers, Sequences, FiniteSets, TLC

VARIABLES
    DEV_MODE,       \* config.DEV_MODE, read once at import
    pc,             \* position of the invocation
    req,            \* the arguments get_crop_prices was called with
    state,          \* local: normalized state
    district,       \* local: normalized district (or None)
    crop_name,      \* local: normalized crop_name (or None)
    attempt,        \* local: loop variable of the retry loop (0-based)
    prices,         \* local: the records obtained so far
    last_error,     \* local: last NetworkError/DataSourceError of the primary (or NoError)
    calls,          \* the external calls made by the invocation, in order
    result,         \* what the invocation returned or raised
    built,          \* last PriceResponse construction made directly (models.py)
    crop_price,     \* last CropPrice construction made directly (models.py)
    today,          \* what date.today() returns
    called_on,      \* the day on which the invocation was started
    prev,           \* the previous invocation: its arguments, day and result
    status_code,    \* status of the HTTP response sent by the endpoint
    parsed,         \* last call of parse_price_data: its argument and outcome
    other,          \* the frame of a second, suspended invocation
    environ         \* os.environ as read when config.py was imported

vars == <<DEV_MODE, pc, req, state, district, crop_name, attempt, prices,
          last_error, calls, result, built, crop_price, today, called_on, prev,
          status_code, parsed, other, environ>>

(***************************************************************************)
(* Program constants.                                                      *)
(***************************************************************************)
MAX_RETRIES == 3
RETRY_DELAY == 2

\* Python's None for the optional string / date / bool parameters.
None == "<None>"

(***************************************************************************)
(* Bounds of the model.                                                    *)
(***************************************************************************)
\* Largest number of records one adapter call returns.
MaxLive == 1
\* Largest count value handed to the PriceResponse constructor directly.
MaxCount == 3
\* Largest number of items handed to the PriceResponse constructor directly.
MaxData == 2

(***************************************************************************)
(* Python string operations used by the code, on TLA+ strings.             *)
(***************************************************************************)
UPPERCASE == "ABCDEFGHIJKLMNOPQRSTUVWXYZ"
LOWERCASE == "abcdefghijklmnopqrstuvwxyz"

CharAt(s, i) == SubSeq(s, i, i)

\* The case mappings of the ASCII letters, as tables.
LowerOf == [c \in {CharAt(UPPERCASE, i) : i \in 1..26} |->
               CharAt(LOWERCASE, CHOOSE i \in 1..26 : CharAt(UPPERCASE, i) = c)]
UpperOf == [c \in {CharAt(LOWERCASE, i) : i \in 1..26} |->
               CharAt(UPPERCASE, CHOOSE i \in 1..26 : CharAt(LOWERCASE, i) = c)]

IsCased(c) == c \in DOMAIN LowerOf \/ c \in DOMAIN UpperOf
IsSpace(c) == c = " "

CharLower(c) == IF c \in DOMAIN LowerOf THEN LowerOf[c] ELSE c
CharUpper(c) == IF c \in DOMAIN UpperOf THEN UpperOf[c] ELSE c

\* str.lower()
RECURSIVE str_lower(_)
str_lower(s) ==
    IF s = "" THEN ""
    ELSE CharLower(CharAt(s, 1)) \o str_lower(SubSeq(s, 2, Len(s)))

\* str.title(): a cased character is upper-cased when it follows an uncased
\* character (or starts the string) and lower-cased otherwise.
RECURSIVE TitleFrom(_, _)
TitleFrom(s, prevCased) ==
    IF s = "" THEN ""
    ELSE LET c == CharAt(s, 1)
         IN  (IF prevCased THEN CharLower(c) ELSE CharUpper(c))
                 \o TitleFrom(SubSeq(s, 2, Len(s)), IsCased(c))
str_title(s) == TitleFrom(s, FALSE)

\* str.strip() (the inputs of the model use the blank as only whitespace)
RECURSIVE str_lstrip(_)
str_lstrip(s) ==
    IF s # "" /\ IsSpace(CharAt(s, 1))
    THEN str_lstrip(SubSeq(s, 2, Len(s))) ELSE s
RECURSIVE str_rstrip(_)
str_rstrip(s) ==
    IF s # "" /\ IsSpace(CharAt(s, Len(s)))
    THEN str_rstrip(SubSeq(s, 1, Len(s) - 1)) ELSE s
str_strip(s) == str_rstrip(str_lstrip(s))

\* Truth value of an Optional[str]: None and "" are false.
Truthy(s) == s # None /\ s # ""

(***************************************************************************)
(* models.py: CropPrice                                                    *)
(***************************************************************************)
\* Mutant of CropPriceValid: validate_modal_price is left out.
CropPriceValid_NoModalCheck(raw) ==
    /\ raw.min_price >= 0
    /\ raw.max_price >= 0
    /\ raw.modal_price >= 0
    /\ raw.max_price >= raw.min_price

\* The field constraints (ge=0) and the two field validators.
CropPriceValid(raw) ==
    /\ raw.min_price >= 0
    /\ raw.max_price >= 0
    /\ raw.modal_price >= 0
    /\ raw.max_price >= raw.min_price
    /\ raw.min_price <= raw.modal_price /\ raw.modal_price <= raw.max_price

\* A raw record (keyword arguments of CropPrice); unit takes its default.
Raw(crop, lo, hi, modal, market, dist, st, day) ==
    [crop_name |-> crop, min_price |-> lo, max_price |-> hi, modal_price |-> modal,
     market_name |-> market, district |-> dist, state |-> st, price_date |-> day,
     unit |-> "Quintal"]

(***************************************************************************)
(* models.py: PriceResponse                                                *)
(***************************************************************************)
\* Mutant of set_count: the supplied count is kept.
set_count_Trusting(v, data) == v

\* The "before" validator of count: data is validated first (field order),
\* and count is replaced by the length of the validated data.
set_count(v, data) == Len(data)

\* PriceResponse(...): construction fails when an item of data is no valid
\* CropPrice; otherwise count is what set_count returns.
PriceResponse(success, data, count, st, dist, crop, message) ==
    IF \A i \in 1..Len(data) : CropPriceValid(data[i])
    THEN [ok |-> TRUE,
          success |-> success, data |-> data, count |-> set_count(count, data),
          state |-> st, district |-> dist, crop_name |-> crop, message |-> message]
    ELSE [ok |-> FALSE,
          success |-> success, data |-> <<>>, count |-> 0,
          state |-> st, district |-> dist, crop_name |-> crop, message |-> message]

(***************************************************************************)
(* mock_data_provider.py                                                   *)
(***************************************************************************)
\* all_crops, without the date (stamped by get_mock_prices).
all_crops == <<
    [crop_name |-> "Wheat", min_price |-> 2100, max_price |-> 2300, modal_price |-> 2200,
     market_name |-> "Azadpur Mandi", district |-> "North Delhi", state |-> "Delhi"],
    [crop_name |-> "Rice", min_price |-> 1800, max_price |-> 2000, modal_price |-> 1900,
     market_name |-> "Azadpur Mandi", district |-> "North Delhi", state |-> "Delhi"],
    [crop_name |-> "Tomato", min_price |-> 1200, max_price |-> 1500, modal_price |-> 1350,
     market_name |-> "Azadpur Mandi", district |-> "North Delhi", state |-> "Delhi"],
    [crop_name |-> "Potato", min_price |-> 800, max_price |-> 1000, modal_price |-> 900,
     market_name |-> "Azadpur Mandi", district |-> "North Delhi", state |-> "Delhi"],
    [crop_name |-> "Onion", min_price |-> 1500, max_price |-> 1800, modal_price |-> 1650,
     market_name |-> "Azadpur Mandi", district |-> "North Delhi", state |-> "Delhi"],
    [crop_name |-> "Wheat", min_price |-> 2050, max_price |-> 2250, modal_price |-> 2150,
     market_name |-> "Khanna Mandi", district |-> "Ludhiana", state |-> "Punjab"],
    [crop_name |-> "Rice", min_price |-> 1750, max_price |-> 1950, modal_price |-> 1850,
     market_name |-> "Khanna Mandi", district |-> "Ludhiana", state |-> "Punjab"],
    [crop_name |-> "Cotton", min_price |-> 5500, max_price |-> 6000, modal_price |-> 5750,
     market_name |-> "Yavatmal Mandi", district |-> "Yavatmal", state |-> "Maharashtra"],
    [crop_name |-> "Sugarcane", min_price |-> 280, max_price |-> 320, modal_price |-> 300,
     market_name |-> "Kolhapur Mandi", district |-> "Kolhapur", state |-> "Maharashtra"],
    [crop_name |-> "Turmeric", min_price |-> 12000, max_price |-> 14000, modal_price |-> 13000,
     market_name |-> "Erode Mandi", district |-> "Erode", state |-> "Tamil Nadu"] >>

\* Mutant of DateOrToday: the date given by the caller is not used.
DateOrToday_IgnoresArgument(price_date) == today

\* `if price_date is None: price_date = date.today()`
DateOrToday(price_date) == IF price_date = None THEN today ELSE price_date

\* Mutant of MockFiltered: the state comparison lower-cases one side only.
MockFiltered_HalfLowered(st, dist, crop) ==
    LET byState == SelectSeq(all_crops, LAMBDA c : c.state = str_lower(st))
        byDistrict == IF Truthy(dist)
                      THEN SelectSeq(byState,
                               LAMBDA c : str_lower(c.district) = str_lower(dist))
                      ELSE byState
    IN  IF Truthy(crop)
        THEN SelectSeq(byDistrict,
                 LAMBDA c : str_lower(c.crop_name) = str_lower(crop))
        ELSE byDistrict

\* The three list comprehensions of get_mock_prices (state, district, crop).
MockFiltered(st, dist, crop) ==
    LET wantState == str_lower(st)
        wantDistrict == str_lower(dist)
        wantCrop == str_lower(crop)
        byState == SelectSeq(all_crops, LAMBDA c : str_lower(c.state) = wantState)
        byDistrict == IF Truthy(dist)
                      THEN SelectSeq(byState,
                               LAMBDA c : str_lower(c.district) = wantDistrict)
                      ELSE byState
    IN  IF Truthy(crop)
        THEN SelectSeq(byDistrict, LAMBDA c : str_lower(c.crop_name) = wantCrop)
        ELSE byDistrict

\* get_mock_prices: the filtered entries as CropPrice objects stamped with the
\* date; it raises when an entry fails the CropPrice validation.
get_mock_prices(st, dist, crop, price_date) ==
    LET filtered == MockFiltered(st, dist, crop)
        day == DateOrToday(price_date)
        recs == [i \in 1..Len(filtered) |->
                    Raw(filtered[i].crop_name, filtered[i].min_price,
                        filtered[i].max_price, filtered[i].modal_price,
                        filtered[i].market_name, filtered[i].district,
                        filtered[i].state, day)]
    IN  IF \A i \in 1..Len(recs) : CropPriceValid(recs[i])
        THEN [raised |-> FALSE, value |-> recs]
        ELSE [raised |-> TRUE, value |-> <<>>]

(***************************************************************************)
(* exceptions.py and the source adapters (the orchestrator's environment)  *)
(***************************************************************************)
NoError == [type |-> "None", text |-> ""]

\* NetworkError(message) keeps the message; DataSourceError prefixes [source].
NetworkError(source) ==
    [type |-> "NetworkError", text |-> "Failed to fetch " \o source \o " page: HTTP 503"]
DataSourceError(source) ==
    [type |-> "DataSourceError", text |-> "[" \o source \o "] not fully implemented"]
\* An exception outside {NetworkError, DataSourceError}: the adapters'
\* docstrings name DataNotFoundError.
DataNotFoundError(source) ==
    [type |-> "DataNotFoundError", text |-> "no data at " \o source]

\* Mutant of Retryable: every exception of an adapter is retried.
Retryable_All(error) == TRUE

\* Mutant of Retryable: DataSourceError is not caught by the retry handler.
Retryable_NetworkOnly(error) == error.type = "NetworkError"

Retryable(error) == error.type \in {"NetworkError", "DataSourceError"}

\* Validated records a live source may hold.
LiveRecords ==
    { Raw("Wheat", 2000, 2400, 2200, "Azadpur Mandi", "North Delhi", "Delhi", "today"),
      Raw("Rice", 1700, 1900, 1800, "Khanna Mandi", "Ludhiana", "Punjab", "today") }

SeqsUpTo(S, n) == UNION { [1..k -> S] : k \in 0..n }

\* What one call of fetch_agmarknet_prices / fetch_enam_prices can do, as
\* seen by its caller: return a list of CropPrice or raise.
AdapterOutcomes(source) ==
    { [kind |-> "raise", error |-> e, value |-> <<>>] :
        e \in {NetworkError(source), DataSourceError(source), DataNotFoundError(source)} }
    \cup
    { [kind |-> "return", error |-> NoError, value |-> l] :
        l \in SeqsUpTo(LiveRecords, MaxLive) }

(***************************************************************************)
(* The record of external calls.                                           *)
(***************************************************************************)
\* The adapters and the mock provider are called with the locals state,
\* district and crop_name: args records them.  value is what an adapter
\* returned.
FetchCall(source, out) ==
    [op |-> "fetch", source |-> source,
     outcome |-> IF out.kind = "raise" THEN out.error.type ELSE "records",
     n |-> Len(out.value), args |-> <<state, district, crop_name>>,
     value |-> out.value]
SleepCall(seconds) ==
    [op |-> "sleep", source |-> "", outcome |-> "", n |-> seconds, args |-> <<>>]
MockCall(m, st, dist, crop) ==
    [op |-> "mock", source |-> "",
     outcome |-> IF m.raised THEN "raise" ELSE "records", n |-> Len(m.value),
     args |-> <<st, dist, crop>>]

(***************************************************************************)
(* crop_price_fetcher.py: get_crop_prices                                  *)
(***************************************************************************)
NoResult == [kind |-> "none", exc |-> "", response |-> <<>>]
Returned(response) == [kind |-> "return", exc |-> "", response |-> response]
Raised(exc) == [kind |-> "raise", exc |-> exc, response |-> <<>>]

NoRequest ==
    [state |-> "", district |-> None, crop_name |-> None, price_date |-> None,
     data_source |-> "", use_mock_fallback |-> FALSE, use_mock_only |-> None]

\* Arguments the model calls get_crop_prices with.
StateArgs == {"", "  ", " delhi ", "Atlantis"}
DistrictArgs == {None, "north delhi", "Ludhiana"}
CropArgs == {None, "WHEAT"}
\* price_date only stamps the mock records; the invocations of the model omit it.
DateArgs == {None}
SourceArgs == {"agmarknet", "Enam", "csv"}
\* Optional[bool]
MockOnlyArgs == {None, "True", "False"}

\* Mutant of StateMissing: the strip() test is left out.
StateMissing_NoStrip(st) == ~Truthy(st)

\* `if not state or not state.strip()`
StateMissing(st) == ~Truthy(st) \/ ~Truthy(str_strip(st))

\* `x.strip().title()`, applied to district and crop_name only when truthy.
\* Mutant of Normalize: trimmed, not title-cased.
Normalize_StripOnly(s) == str_strip(s)

Normalize(s) == str_title(str_strip(s))
NormalizeOpt(s) == IF Truthy(s) THEN Normalize(s) ELSE s

\* Mutant of ResolveMockOnly: DEV_MODE wins over an explicit False.
ResolveMockOnly_DevWins(umo, dev) == dev \/ umo = "True"

\* `if use_mock_only is None: use_mock_only = DEV_MODE`
ResolveMockOnly(umo, dev) == IF umo = None THEN dev ELSE umo = "True"

\* Mutant of PostFilter: the crop_name filter is left out.
PostFilter_DistrictOnly(ps, dist, crop) ==
    IF Truthy(dist)
    THEN SelectSeq(ps, LAMBDA p : str_lower(p.district) = str_lower(dist))
    ELSE ps

\* Mutant of PostFilter: the district comparison lower-cases one side only.
PostFilter_HalfLowered(ps, dist, crop) ==
    LET byDistrict == IF Truthy(dist)
                      THEN SelectSeq(ps, LAMBDA p : p.district = str_lower(dist))
                      ELSE ps
    IN  IF Truthy(crop)
        THEN SelectSeq(byDistrict,
                 LAMBDA p : str_lower(p.crop_name) = str_lower(crop))
        ELSE byDistrict

\* The two list comprehensions applied to a non-empty record list.
PostFilter(ps, dist, crop) ==
    LET wantDistrict == str_lower(dist)
        wantCrop == str_lower(crop)
        byDistrict == IF Truthy(dist)
                      THEN SelectSeq(ps, LAMBDA p : str_lower(p.district) = wantDistrict)
                      ELSE ps
    IN  IF Truthy(crop)
        THEN SelectSeq(byDistrict, LAMBDA p : str_lower(p.crop_name) = wantCrop)
        ELSE byDistrict

\* Mutant of MockOnlyResponse: `if prices` is left out.
MockOnlyResponse_NoEmptyTest(st, dist, crop, m) ==
    LET ps == PostFilter(m.value, dist, crop)
    IN  PriceResponse(TRUE, ps, Len(ps), st, dist, crop,
            "Successfully fetched " \o ToString(Len(ps))
                \o " mock price entries (dev mode)")

\* The mock-only path: the response it returns.
MockOnlyResponse(st, dist, crop, m) ==
    IF ~m.raised /\ m.value # <<>>
    THEN LET ps == PostFilter(m.value, dist, crop)
         IN  PriceResponse(TRUE, ps, Len(ps), st, dist, crop,
                 "Successfully fetched " \o ToString(Len(ps))
                     \o " mock price entries (dev mode)")
    ELSE PriceResponse(FALSE, <<>>, 0, st, dist, crop,
             "Mock data provider unavailable")

\* Mutant of KnownSource: the `else: raise ValueError` branch is never taken.
KnownSource_Any(ds) == TRUE

\* `data_source.lower() == "agmarknet"` or `data_source.lower() == "enam"`
KnownSource(ds) == str_lower(ds) \in {"agmarknet", "enam"}

\* Entry of get_crop_prices up to its first suspension point: validation,
\* normalization, mode selection and the whole mock-only path.
Invoke(st, di, cr, pd, ds, umf, umo) ==
    /\ pc = "idle"
    /\ req' = [state |-> st, district |-> di, crop_name |-> cr, price_date |-> pd,
               data_source |-> ds, use_mock_fallback |-> umf, use_mock_only |-> umo]
    /\ IF StateMissing(st)
       THEN /\ result' = Raised("ValueError")
            /\ pc' = "done"
            /\ UNCHANGED <<state, district, crop_name, calls>>
       ELSE /\ state' = Normalize(st)
            /\ district' = NormalizeOpt(di)
            /\ crop_name' = NormalizeOpt(cr)
            /\ IF ResolveMockOnly(umo, DEV_MODE)
               THEN LET m == get_mock_prices(state', district', crop_name', pd)
                    IN  /\ calls' = Append(calls, MockCall(m, state', district', crop_name'))
                        /\ result' = Returned(
                               MockOnlyResponse(state', district', crop_name', m))
                        /\ pc' = "done"
               ELSE IF ~KnownSource(ds)
                    THEN \* first iteration: ValueError("Unknown data source"),
                         \* caught by `except Exception`, raised as CropPriceError
                         /\ result' = Raised("CropPriceError")
                         /\ pc' = "done"
                         /\ UNCHANGED calls
                    ELSE /\ pc' = "primary"
                         /\ UNCHANGED <<calls, result>>
    /\ called_on' = today
    /\ UNCHANGED <<DEV_MODE, parsed, other, environ, status_code, crop_price, today, prev, attempt, prices, last_error, built>>

\* The failure message of the live path.
FailureMessage(st, dist, crop, err) ==
    "No price data found for state=" \o st
        \o (IF Truthy(dist) THEN ", district=" \o dist ELSE "")
        \o (IF Truthy(crop) THEN ", crop=" \o crop ELSE "")
        \o (IF err # NoError THEN ". Last error: " \o err.text ELSE "")

\* Mutant of MockFallbackTaken: decided on the records left by the filter.
MockFallbackTaken_AfterFilter(ps, umf) ==
    umf /\ PostFilter(ps, district, crop_name) = <<>>

\* Mutant of MockFallbackTaken: the records already obtained are not looked at.
MockFallbackTaken_IgnoresPrices(ps, umf) == umf

\* `if not prices and use_mock_fallback and get_mock_prices`
MockFallbackTaken(ps, umf) == ps = <<>> /\ umf

\* The mock-fallback step applied to the records ps obtained so far: the
\* provider's outcome (meaningful when MockFallbackTaken) and the records after it.
MockFallback(ps, m) == IF m.raised THEN ps ELSE m.value

\* Mutant of Finalize: success is decided before the post-filter.
Finalize_SuccessBeforeFilter(ps, st, dist, crop, err) ==
    LET kept == IF ps # <<>> THEN PostFilter(ps, dist, crop) ELSE ps
    IN  IF ps = <<>>
        THEN PriceResponse(FALSE, <<>>, 0, st, dist, crop,
                 FailureMessage(st, dist, crop, err))
        ELSE PriceResponse(TRUE, kept, Len(kept), st, dist, crop,
                 "Successfully fetched " \o ToString(Len(kept)) \o " price entries")

\* Post-filter and response construction of the live path.
Finalize(ps, st, dist, crop, err) ==
    LET kept == IF ps # <<>> THEN PostFilter(ps, dist, crop) ELSE ps
    IN  IF kept = <<>>
        THEN PriceResponse(FALSE, <<>>, 0, st, dist, crop,
                 FailureMessage(st, dist, crop, err))
        ELSE PriceResponse(TRUE, kept, Len(kept), st, dist, crop,
                 "Successfully fetched " \o ToString(Len(kept)) \o " price entries")

\* Mutant of FailoverTaken: last_error is not looked at.
FailoverTaken_NoRecords(ps, err) == ps = <<>>

\* `if not prices and last_error`: the failover step is entered.
FailoverTaken(ps, err) == ps = <<>> /\ err # NoError

PrimarySource == str_lower(req.data_source)

\* The code from the mock-fallback step to the return, which has no
\* suspension point. ps are the records obtained from the live sources,
\* err is last_error, made are the calls made so far.
RestOfCall(ps, err, made) ==
    /\ pc' = "done"
    /\ IF MockFallbackTaken(ps, req.use_mock_fallback)
       THEN \E m \in {get_mock_prices(state, district, crop_name, req.price_date)} :
                /\ calls' = Append(made, MockCall(m, state, district, crop_name))
                /\ prices' = MockFallback(ps, m)
       ELSE /\ calls' = made
            /\ prices' = ps
    /\ result' = Returned(Finalize(prices', state, district, crop_name, err))

\* Mutant of AfterLoop: the mock provider is asked before the failover call.
AfterLoop_MockFirst(ps, err, made) ==
    IF FailoverTaken(ps, err)
    THEN /\ pc' = "failover"
         /\ prices' = ps
         /\ calls' = Append(made,
                MockCall(get_mock_prices(state, district, crop_name, req.price_date),
                         state, district, crop_name))
         /\ UNCHANGED result
    ELSE RestOfCall(ps, err, made)

\* The code that follows the retry loop (left by break or by exhaustion), up
\* to the next suspension point: the failover call, or the end of the invocation.
AfterLoop(ps, err, made) ==
    IF FailoverTaken(ps, err)
    THEN /\ pc' = "failover"
         /\ prices' = ps
         /\ calls' = made
         /\ UNCHANGED result
    ELSE RestOfCall(ps, err, made)

\* Mutant of LastIteration: the loop runs one iteration more.
LastIteration_OneMore(a) == a + 1 > MAX_RETRIES

\* `for attempt in range(MAX_RETRIES)` has no iteration after this one.
LastIteration(a) == a + 1 >= MAX_RETRIES

\* Mutant of SleepBeforeRetry: a sleep follows the last attempt as well.
SleepBeforeRetry_Always(a) == TRUE

\* `if attempt < MAX_RETRIES - 1`: sleep before the next attempt.
SleepBeforeRetry(a) == a < MAX_RETRIES - 1

\* Mutant of BackoffDelay: the delay does not grow with the attempt.
BackoffDelay_Flat(a) == RETRY_DELAY

\* `RETRY_DELAY * (attempt + 1)`
BackoffDelay(a) == RETRY_DELAY * (a + 1)

\* Mutant of GotPrices: any list returned ends the loop.
GotPrices_AnyReturn(ps) == TRUE

\* `if prices: break`
GotPrices(ps) == ps # <<>>

\* The end of one iteration of the retry loop that did not break.
LoopNext(ps, err, made) ==
    IF LastIteration(attempt)
    THEN /\ AfterLoop(ps, err, made)
         /\ UNCHANGED attempt
    ELSE /\ attempt' = attempt + 1
         /\ pc' = "primary"
         /\ prices' = ps
         /\ calls' = made
         /\ UNCHANGED result

\* The primary adapter's call of iteration `attempt` completes with an
\* outcome; the code runs on to its next suspension point.
PrimaryAttempt ==
    /\ pc = "primary"
    /\ LET source == PrimarySource
       IN  \E out \in AdapterOutcomes(source) :
         LET made == Append(calls, FetchCall(source, out))
         IN  IF out.kind = "return"
             THEN /\ UNCHANGED last_error
                  /\ IF GotPrices(out.value)
                     THEN /\ AfterLoop(out.value, last_error, made)
                          /\ UNCHANGED attempt
                     ELSE LoopNext(out.value, last_error, made)
             ELSE IF Retryable(out.error)
                  THEN /\ last_error' = out.error
                       /\ IF SleepBeforeRetry(attempt)
                          THEN /\ pc' = "sleep"
                               /\ calls' = made
                               /\ UNCHANGED <<attempt, prices, result>>
                          ELSE LoopNext(prices, out.error, made)
                  ELSE \* except Exception: raise CropPriceError
                       /\ result' = Raised("CropPriceError")
                       /\ pc' = "done"
                       /\ calls' = made
                       /\ UNCHANGED <<attempt, prices, last_error>>
    /\ UNCHANGED <<DEV_MODE, parsed, other, environ, status_code, crop_price, today, prev, called_on, req, state, district, crop_name, built>>

\* `await asyncio.sleep(RETRY_DELAY * (attempt + 1))` completes; the loop
\* goes to its next iteration.
BackoffSleep ==
    /\ pc = "sleep"
    /\ LoopNext(prices, last_error, Append(calls, SleepCall(BackoffDelay(attempt))))
    /\ UNCHANGED <<DEV_MODE, parsed, other, environ, status_code, crop_price, today, prev, called_on, req, state, district, crop_name, last_error, built>>

\* Mutant of fallback_source: the failover source is fixed.
fallback_source_Fixed(primary) == "enam"

\* `"enam" if data_source.lower() == "agmarknet" else "agmarknet"`
fallback_source(primary) == IF primary = "agmarknet" THEN "enam" ELSE "agmarknet"

\* The failover call completes: a returned list replaces prices, any
\* exception is swallowed; the code runs on to the end of the invocation.
Failover ==
    /\ pc = "failover"
    /\ LET source == fallback_source(PrimarySource)
       IN  \E out \in AdapterOutcomes(source) :
             RestOfCall(IF out.kind = "return" THEN out.value ELSE prices,
                        last_error,
                        Append(calls, FetchCall(source, out)))
    /\ UNCHANGED <<DEV_MODE, parsed, other, environ, status_code, crop_price, today, prev, called_on, req, state, district, crop_name, attempt, last_error,
                   built>>

(***************************************************************************)
(* crop_price_fetcher.py: several invocations of get_crop_prices on one    *)
(* event loop.  The variables pc .. called_on are the locals of the        *)
(* coroutine that is running; `other` holds the locals of a second         *)
(* coroutine suspended at an await (or not started, or finished).          *)
(***************************************************************************)
\* No second coroutine exists.
NoFrame == [pc |-> "none"]

\* The locals of a coroutine that has not started.
IdleFrame ==
    [pc |-> "idle", req |-> NoRequest, state |-> "", district |-> None,
     crop_name |-> None, attempt |-> 0, prices |-> <<>>, last_error |-> NoError,
     calls |-> <<>>, result |-> NoResult, called_on |-> ""]

\* The locals of the running coroutine, as kept in its frame when it
\* suspends.
FrameLocals ==
    [pc |-> pc, req |-> req, state |-> state, district |-> district,
     crop_name |-> crop_name, attempt |-> attempt, prices |-> prices,
     last_error |-> last_error, calls |-> calls, result |-> result,
     called_on |-> called_on]

\* Mutant of Resume: last_error is a module-level variable, it keeps the
\* value the coroutine that ran last gave it.
Resume_SharedLastError(f) == [f EXCEPT !.last_error = last_error]

\* Mutant of Resume: the loop counter is a module-level variable.
Resume_SharedAttempt(f) == [f EXCEPT !.attempt = attempt]

\* The locals a coroutine finds when the event loop resumes it: every name
\* get_crop_prices assigns is local to the call.
Resume(f) == f

\* The event loop leaves the running coroutine at its await and runs the
\* other one (starting it if there is none yet).
Switch ==
    /\ pc # "idle"
    /\ other' = FrameLocals
    /\ LET f == Resume(IF other = NoFrame THEN IdleFrame ELSE other)
       IN  /\ pc' = f.pc
           /\ req' = f.req
           /\ state' = f.state
           /\ district' = f.district
           /\ crop_name' = f.crop_name
           /\ attempt' = f.attempt
           /\ prices' = f.prices
           /\ last_error' = f.last_error
           /\ calls' = f.calls
           /\ result' = f.result
           /\ called_on' = f.called_on
    /\ UNCHANGED <<DEV_MODE, parsed, environ, status_code, crop_price, today, prev, built>>

(***************************************************************************)
(* get_crop_prices run alone: the frame one invocation is in after the     *)
(* awaited calls completed as the events say.  An event is a completed     *)
(* adapter call (its outcome) or a completed sleep.                        *)
(***************************************************************************)
ErrorOf(type, source) ==
    CASE type = "NetworkError" -> NetworkError(source)
      [] type = "DataSourceError" -> DataSourceError(source)
      [] OTHER -> DataNotFoundError(source)

\* The adapter outcome an event stands for.
OutcomeOf(ev, source) ==
    IF ev.outcome = "records"
    THEN [kind |-> "return", error |-> NoError, value |-> ev.value]
    ELSE [kind |-> "raise", error |-> ErrorOf(ev.outcome, source), value |-> <<>>]

\* The record of an adapter call made by the frame f.
AloneFetchCall(f, source, out) ==
    [op |-> "fetch", source |-> source,
     outcome |-> IF out.kind = "raise" THEN out.error.type ELSE "records",
     n |-> Len(out.value), args |-> <<f.state, f.district, f.crop_name>>,
     value |-> out.value]

\* Entry of get_crop_prices up to its first await.
AloneInvoke(r) ==
    LET f == [IdleFrame EXCEPT !.req = r, !.called_on = today]
        st == Normalize(r.state)
        di == NormalizeOpt(r.district)
        cr == NormalizeOpt(r.crop_name)
        g == [f EXCEPT !.state = st, !.district = di, !.crop_name = cr]
    IN  IF StateMissing(r.state)
        THEN [f EXCEPT !.pc = "done", !.result = Raised("ValueError")]
        ELSE IF ResolveMockOnly(r.use_mock_only, DEV_MODE)
        THEN LET m == get_mock_prices(st, di, cr, r.price_date)
             IN  [g EXCEPT !.pc = "done",
                           !.calls = <<MockCall(m, st, di, cr)>>,
                           !.result = Returned(MockOnlyResponse(st, di, cr, m))]
        ELSE IF str_lower(r.data_source) \notin {"agmarknet", "enam"}
        THEN [g EXCEPT !.pc = "done", !.result = Raised("CropPriceError")]
        ELSE [g EXCEPT !.pc = "primary"]

\* From the mock-fallback step to the return.
AloneRestOfCall(f, ps, made) ==
    LET taken == ps = <<>> /\ f.req.use_mock_fallback
        m == get_mock_prices(f.state, f.district, f.crop_name, f.req.price_date)
        got == IF taken THEN (IF m.raised THEN ps ELSE m.value) ELSE ps
    IN  [f EXCEPT !.pc = "done",
                  !.calls = IF taken
                            THEN Append(made, MockCall(m, f.state, f.district, f.crop_name))
                            ELSE made,
                  !.prices = got,
                  !.result = Returned(Finalize(got, f.state, f.district, f.crop_name,
                                               f.last_error))]

\* After the retry loop.
AloneAfterLoop(f, ps, made) ==
    IF ps = <<>> /\ f.last_error # NoError
    THEN [f EXCEPT !.pc = "failover", !.prices = ps, !.calls = made]
    ELSE AloneRestOfCall(f, ps, made)

\* The end of an iteration that did not break.
AloneLoopNext(f, ps, made) ==
    IF f.attempt + 1 >= MAX_RETRIES
    THEN AloneAfterLoop(f, ps, made)
    ELSE [f EXCEPT !.pc = "primary", !.attempt = f.attempt + 1, !.prices = ps,
                   !.calls = made]

\* The frame after one more awaited call completed.
AloneStep(f, ev) ==
    CASE f.pc = "primary" /\ ev.op = "fetch" ->
            LET source == str_lower(f.req.data_source)
                out == OutcomeOf(ev, source)
                made == Append(f.calls, AloneFetchCall(f, source, out))
            IN  IF out.kind = "return"
                THEN IF out.value # <<>>
                     THEN AloneAfterLoop(f, out.value, made)
                     ELSE AloneLoopNext(f, out.value, made)
                ELSE IF out.error.type \in {"NetworkError", "DataSourceError"}
                THEN LET g == [f EXCEPT !.last_error = out.error]
                     IN  IF f.attempt < MAX_RETRIES - 1
                         THEN [g EXCEPT !.pc = "sleep", !.calls = made]
                         ELSE AloneLoopNext(g, f.prices, made)
                ELSE [f EXCEPT !.pc = "done", !.calls = made,
                               !.result = Raised("CropPriceError")]
      [] f.pc = "sleep" /\ ev.op = "sleep" ->
            AloneLoopNext(f, f.prices,
                Append(f.calls, SleepCall(RETRY_DELAY * (f.attempt + 1))))
      [] f.pc = "failover" /\ ev.op = "fetch" ->
            LET source == IF str_lower(f.req.data_source) = "agmarknet"
                          THEN "enam" ELSE "agmarknet"
                out == OutcomeOf(ev, source)
            IN  AloneRestOfCall(f,
                    IF out.kind = "return" THEN out.value ELSE f.prices,
                    Append(f.calls, AloneFetchCall(f, source, out)))
      [] OTHER -> [f EXCEPT !.pc = "no such run"]

RECURSIVE AloneFrom(_, _, _)
AloneFrom(f, evs, i) ==
    IF i > Len(evs) THEN f ELSE AloneFrom(AloneStep(f, evs[i]), evs, i + 1)

\* The frame of get_crop_prices(r) run alone, after the events evs.
Alone(r, evs) == AloneFrom(AloneInvoke(r), evs, 1)

(***************************************************************************)
(* crop_price_fetcher.py: the two adapters as they are written.            *)
(***************************************************************************)
\* What the HTTP request of an adapter can come to: a response with a
\* status, an aiohttp.ClientError, or another exception (the total timeout
\* raises asyncio.TimeoutError).
HttpOutcomes == {"HTTP 200", "HTTP 503", "ClientError", "TimeoutError"}

\* Mutant of AdapterAsImplemented: a 200 response is parsed into records.
AdapterAsImplemented_Parsing(source, http) ==
    IF http = "HTTP 200"
    THEN [kind |-> "return", error |-> NoError,
          value |-> <<Raw("Rice", 1700, 1900, 1800, "Khanna Mandi", "Ludhiana",
                          "Punjab", "today")>>]
    ELSE [kind |-> "raise", error |-> NetworkError(source), value |-> <<>>]

\* fetch_agmarknet_prices / fetch_enam_prices: a status other than 200 and
\* a ClientError raise NetworkError; a 200 response reaches the
\* `raise DataSourceError(... not fully implemented ...)`; any other
\* exception is wrapped into DataSourceError.  No path returns.
AdapterAsImplemented(source, http) ==
    IF http \in {"HTTP 503", "ClientError"}
    THEN [kind |-> "raise", error |-> NetworkError(source), value |-> <<>>]
    ELSE [kind |-> "raise", error |-> DataSourceError(source), value |-> <<>>]

\* Every adapter call on record ended as the adapters as written can end.
CallsAsImplemented(cs) ==
    \A i \in 1..Len(cs) :
        cs[i].op = "fetch" =>
            \E http \in HttpOutcomes :
                cs[i] = FetchCall(cs[i].source, AdapterAsImplemented(cs[i].source, http))

PrimaryAttemptAsImplemented == PrimaryAttempt /\ CallsAsImplemented(calls')

FailoverAsImplemented == Failover /\ CallsAsImplemented(calls')

(***************************************************************************)
(* Direct construction of the models (models.py), with arbitrary arguments.*)
(***************************************************************************)
\* Keyword arguments for a record: the two live records and one that
\* violates max_price >= min_price.
RawItems ==
    LiveRecords \cup
    { Raw("Onion", 1800, 1500, 1650, "Azadpur Mandi", "North Delhi", "Delhi", "today") }

\* PriceResponse(success=..., data=..., count=..., ...) called directly.
ConstructPriceResponse ==
    /\ \E success \in BOOLEAN, data \in SeqsUpTo(RawItems, MaxData), count \in 0..MaxCount :
         built' = [success |-> success, data |-> data, count |-> count,
                   obj |-> PriceResponse(success, data, count, "Delhi", None, None, None)]
    /\ UNCHANGED <<DEV_MODE, parsed, other, environ, status_code, crop_price, today, prev, called_on, pc, req, state, district, crop_name, attempt, prices,
                   last_error, calls, result>>

\* CropPrice(**raw): the object, or a validation error.
CropPrice(raw) == [ok |-> CropPriceValid(raw), args |-> raw]

\* Values for the three prices and for the four name fields.
MaxPrice == 2
PriceArgs == -1..MaxPrice
NameArgs == {"", "Wheat"}

\* CropPrice(crop_name=..., min_price=..., ...) called directly.
ConstructCropPrice ==
    /\ \E lo \in PriceArgs, hi \in PriceArgs, modal \in PriceArgs,
          cn \in NameArgs, mn \in NameArgs, di \in NameArgs, st \in NameArgs :
          crop_price' = CropPrice(Raw(cn, lo, hi, modal, mn, di, st, "2024-01-15"))
    /\ UNCHANGED <<DEV_MODE, parsed, other, environ, pc, req, state, district, crop_name, attempt, prices,
                   last_error, calls, result, built, today, called_on, prev,
                   status_code>>

NoCrop == CropPrice(Raw("Wheat", 0, 0, 0, "Wheat", "Wheat", "Wheat", "2024-01-15"))

(***************************************************************************)
(* Successive invocations and the calendar.                                *)
(***************************************************************************)
\* The days date.today() runs through.
Calendar == <<"2024-01-15", "2024-01-16">>

NoPrev == [set |-> FALSE, req |-> NoRequest, day |-> "", result |-> NoResult]

\* The day changes.
Midnight ==
    /\ \E i \in 1..(Len(Calendar) - 1) :
          today = Calendar[i] /\ today' = Calendar[i + 1]
    /\ UNCHANGED <<DEV_MODE, parsed, other, environ, pc, req, state, district, crop_name, attempt, prices,
                   last_error, calls, result, built, crop_price, called_on, prev,
                   status_code>>

\* The caller has its result and is about to call get_crop_prices again:
\* a fresh invocation starts with fresh locals.
CallAgain ==
    /\ pc = "done"
    /\ ~prev.set
    /\ prev' = [set |-> TRUE, req |-> req, day |-> called_on, result |-> result]
    /\ pc' = "idle"
    /\ req' = NoRequest
    /\ state' = ""
    /\ district' = None
    /\ crop_name' = None
    /\ attempt' = 0
    /\ prices' = <<>>
    /\ last_error' = NoError
    /\ calls' = <<>>
    /\ result' = NoResult
    /\ called_on' = ""
    /\ UNCHANGED <<DEV_MODE, parsed, other, environ, built, crop_price, today, status_code>>

\* get_crop_prices(..., use_mock_only=True), with or without a price_date.
InvokeMockOnly ==
    \E st \in StateArgs, di \in DistrictArgs, cr \in CropArgs,
       pd \in {None, Calendar[1]} :
       Invoke(st, di, cr, pd, "agmarknet", TRUE, "True")

(***************************************************************************)
(* crop_price_fetcher.py: parse_price_data                                 *)
(***************************************************************************)
DataValidationError == "DataValidationError"

\* The loop of parse_price_data over raw_data[i..]: CropPrice(**item) for
\* each item in turn; the first item that fails raises DataValidationError
\* out of the function, whatever was collected so far.
RECURSIVE ParseFrom(_, _, _)
ParseFrom(raw_data, i, collected) ==
    IF i > Len(raw_data)
    THEN [raised |-> "", value |-> collected]
    ELSE IF CropPrice(raw_data[i]).ok
         THEN ParseFrom(raw_data, i + 1, Append(collected, raw_data[i]))
         ELSE [raised |-> DataValidationError, value |-> <<>>]

parse_price_data(raw_data) == ParseFrom(raw_data, 1, <<>>)

\* Raw items of a batch: the two valid live records, one with
\* max_price < min_price and one with a negative price.
MaxBatch == 3
BatchItems ==
    RawItems \cup
    { Raw("Rice", -1, 3200, 3000, "Ludhiana Mandi", "Ludhiana", "Punjab", "today") }

NoParsed == [raw_data |-> <<>>, out |-> parse_price_data(<<>>)]

\* parse_price_data(raw_data) called on a batch.
ParseBatch ==
    /\ \E raw_data \in SeqsUpTo(BatchItems, MaxBatch) :
          parsed' = [raw_data |-> raw_data, out |-> parse_price_data(raw_data)]
    /\ UNCHANGED <<DEV_MODE, pc, req, state, district, crop_name, attempt, prices,
                   last_error, calls, result, built, crop_price, today, called_on,
                   prev, status_code, other, environ>>

(***************************************************************************)
(* fastapi_integration_example.py: GET /api/v1/crop-prices                 *)
(***************************************************************************)
HTTP_200_OK == 200
HTTP_400_BAD_REQUEST == 400
HTTP_404_NOT_FOUND == 404
HTTP_422_UNPROCESSABLE_ENTITY == 422
HTTP_500_INTERNAL_SERVER_ERROR == 500
HTTP_503_SERVICE_UNAVAILABLE == 503
\* No response sent.
NoStatus == 0

\* `state: str = Query(..., min_length=1)`: the framework answers a request
\* that fails it with 422 and does not call the handler.
QueryValid(st) == Len(st) >= 1

\* The classes an exception is an instance of.
Bases(exc) ==
    IF exc \in {"DataSourceError", "NetworkError", "DataNotFoundError",
                "DataValidationError", "CropPriceError"}
    THEN {exc, "CropPriceError", "Exception"}
    ELSE {exc, "Exception"}

\* What the body of the handler's `try` does with the orchestrator's
\* outcome: it lets the orchestrator's exception through, raises
\* HTTPException(404) itself, or returns the response.
NoException == "<none>"
TryBody(res) ==
    IF res.kind = "raise" THEN res.exc
    ELSE IF ~res.response.success \/ res.response.count = 0
         THEN "HTTPException"
         ELSE NoException

\* The `except` clauses of the handler, in their order, with the status of
\* the HTTPException each raises.
ExceptClauses ==
    << [catch |-> "DataNotFoundError", status |-> HTTP_404_NOT_FOUND],
       [catch |-> "NetworkError", status |-> HTTP_503_SERVICE_UNAVAILABLE],
       [catch |-> "CropPriceError", status |-> HTTP_500_INTERNAL_SERVER_ERROR],
       [catch |-> "Exception", status |-> HTTP_500_INTERNAL_SERVER_ERROR] >>

\* The first clause that catches exc.
Caught(exc) ==
    LET i == CHOOSE k \in 1..Len(ExceptClauses) :
                 /\ ExceptClauses[k].catch \in Bases(exc)
                 /\ \A j \in 1..(k - 1) : ExceptClauses[j].catch \notin Bases(exc)
    IN  ExceptClauses[i]

\* @app.exception_handler(ValueError): the status for a ValueError that
\* leaves the handler.
value_error_handler == HTTP_400_BAD_REQUEST

\* The status the handler ends with for an outcome of the orchestrator.
\* Whatever is raised in the `try` is caught by a clause, the last of which
\* is `except Exception`, so what leaves the handler is an HTTPException.
ResponseStatus(res) ==
    LET thrown == TryBody(res)
    IN  IF thrown = NoException THEN HTTP_200_OK ELSE Caught(thrown).status

\* A request the framework refuses before the handler runs.
RejectQuery ==
    /\ pc = "idle"
    /\ \E st \in StateArgs, di \in DistrictArgs, cr \in CropArgs, pd \in DateArgs,
          ds \in SourceArgs, umf \in BOOLEAN, umo \in MockOnlyArgs :
          /\ ~QueryValid(st)
          /\ req' = [state |-> st, district |-> di, crop_name |-> cr,
                     price_date |-> pd, data_source |-> ds,
                     use_mock_fallback |-> umf, use_mock_only |-> umo]
    /\ status_code' = HTTP_422_UNPROCESSABLE_ENTITY
    /\ pc' = "responded"
    /\ UNCHANGED <<DEV_MODE, parsed, other, environ, state, district, crop_name, attempt, prices, last_error,
                   calls, result, built, crop_price, today, called_on, prev>>

\* fetch_crop_prices up to its await: the handler calls get_crop_prices with
\* the query parameters.
fetch_crop_prices ==
    \E st \in StateArgs, di \in DistrictArgs, cr \in CropArgs, pd \in DateArgs,
       ds \in SourceArgs, umf \in BOOLEAN, umo \in MockOnlyArgs :
       /\ QueryValid(st)
       /\ Invoke(st, di, cr, pd, ds, umf, umo)

\* fetch_crop_prices after its await: the response or the HTTPException.
Respond ==
    /\ pc = "done"
    /\ status_code' = ResponseStatus(result)
    /\ pc' = "responded"
    /\ UNCHANGED <<DEV_MODE, parsed, other, environ, req, state, district, crop_name, attempt, prices,
                   last_error, calls, result, built, crop_price, today, called_on,
                   prev>>

NoBuilt ==
    [success |-> FALSE, data |-> <<>>, count |-> 0,
     obj |-> PriceResponse(FALSE, <<>>, 0, "", None, None, None)]

(***************************************************************************)
(* config.py                                                               *)
(***************************************************************************)
\* No CROP_PRICE_* variable set.
NoEnviron == [CROP_PRICE_MAX_RETRIES |-> None, CROP_PRICE_RETRY_DELAY |-> None,
              CROP_PRICE_TIMEOUT |-> None]

\* Environments with some of the three variables set.
EnvironArgs ==
    [CROP_PRICE_MAX_RETRIES : {None, "1", "4"},
     CROP_PRICE_RETRY_DELAY : {None, "5"},
     CROP_PRICE_TIMEOUT : {None, "10"}]

\* os.getenv(name, default)
getenv(name, default) == IF environ[name] = None THEN default ELSE environ[name]

\* int(s) for a string of decimal digits.
DigitValue ==
    [c \in {"0", "1", "2", "3", "4", "5", "6", "7", "8", "9"} |->
        CASE c = "0" -> 0 [] c = "1" -> 1 [] c = "2" -> 2 [] c = "3" -> 3
          [] c = "4" -> 4 [] c = "5" -> 5 [] c = "6" -> 6 [] c = "7" -> 7
          [] c = "8" -> 8 [] c = "9" -> 9]
RECURSIVE int(_)
int(s) ==
    IF Len(s) = 0 THEN 0
    ELSE 10 * int(SubSeq(s, 1, Len(s) - 1)) + DigitValue[CharAt(s, Len(s))]

\* config.REQUEST_TIMEOUT, config.MAX_RETRIES, config.RETRY_DELAY
config_REQUEST_TIMEOUT == int(getenv("CROP_PRICE_TIMEOUT", "30"))
config_MAX_RETRIES == int(getenv("CROP_PRICE_MAX_RETRIES", "3"))
config_RETRY_DELAY == int(getenv("CROP_PRICE_RETRY_DELAY", "2"))

\* The module constant of crop_price_fetcher.py the adapters pass to
\* aiohttp.ClientTimeout(total=...).
REQUEST_TIMEOUT == 30

InitWith(env) ==
    /\ DEV_MODE \in BOOLEAN
    /\ pc = "idle"
    /\ req = NoRequest
    /\ state = ""
    /\ district = None
    /\ crop_name = None
    /\ attempt = 0
    /\ prices = <<>>
    /\ last_error = NoError
    /\ calls = <<>>
    /\ result = NoResult
    /\ built = NoBuilt
    /\ crop_price = NoCrop
    /\ today = Calendar[1]
    /\ called_on = ""
    /\ prev = NoPrev
    /\ status_code = NoStatus
    /\ parsed = NoParsed
    /\ other = NoFrame
    /\ environ = env

Init == InitWith(NoEnviron)

\* The process started in some environment.
InitConfig == \E env \in EnvironArgs : InitWith(env)

Next ==
    \/ \E st \in StateArgs, di \in DistrictArgs, cr \in CropArgs, pd \in DateArgs,
          ds \in SourceArgs, umf \in BOOLEAN, umo \in MockOnlyArgs :
          Invoke(st, di, cr, pd, ds, umf, umo)
    \/ PrimaryAttempt
    \/ BackoffSleep
    \/ Failover

Spec == Init /\ [][Next]_vars

\* Invocations in either mode, with and without mock fallback, for a
\* source that exists and one that does not, for a state that is blank and
\* one that is not.
InvokeAny ==
    \E st \in {"  ", " delhi "}, ds \in {"agmarknet", "csv"},
       umf \in BOOLEAN, umo \in {"True", "False"} :
       Invoke(st, None, None, None, ds, umf, umo)

NextFair == InvokeAny \/ PrimaryAttempt \/ BackoffSleep \/ Failover

\* Every awaited adapter call and sleep completes.
Fairness ==
    /\ WF_vars(PrimaryAttempt)
    /\ WF_vars(BackoffSleep)
    /\ WF_vars(Failover)

SpecFair == Init /\ [][NextFair]_vars /\ Fairness

\* get_crop_prices in a process whose environment sets CROP_PRICE_* variables.
SpecConfig == InitConfig /\ [][NextFair]_vars

\* Two invocations on one event loop, interleaved at their awaits, with the
\* adapters as they are written.
InvokeConcurrent ==
    \E ds \in {"agmarknet", "Enam"}, umf \in BOOLEAN :
        Invoke(" delhi ", None, "WHEAT", None, ds, umf, "False")
NextConcurrent ==
    \/ InvokeConcurrent
    \/ PrimaryAttemptAsImplemented
    \/ BackoffSleep
    \/ FailoverAsImplemented
    \/ Switch
SpecConcurrent == Init /\ [][NextConcurrent]_vars

\* The models on their own: every construction of a PriceResponse.
NextModels == ConstructPriceResponse

\* CropPrice objects constructed directly.
NextCropPrice == ConstructCropPrice

SpecCropPrice == Init /\ [][NextCropPrice]_vars

\* Mock-only invocations one after the other, while the days pass.
NextSuccessive == InvokeMockOnly \/ CallAgain \/ Midnight

SpecSuccessive == Init /\ [][NextSuccessive]_vars

SpecModels == Init /\ [][NextModels]_vars

\* Batches given to parse_price_data.
NextParse == ParseBatch

SpecParse == Init /\ [][NextParse]_vars

\* get_crop_prices over the adapters as they are written.
NextImplemented ==
    \/ \E st \in StateArgs, di \in DistrictArgs, cr \in CropArgs, pd \in DateArgs,
          ds \in SourceArgs, umf \in BOOLEAN, umo \in MockOnlyArgs :
          Invoke(st, di, cr, pd, ds, umf, umo)
    \/ PrimaryAttemptAsImplemented
    \/ BackoffSleep
    \/ FailoverAsImplemented

SpecImplemented == Init /\ [][NextImplemented]_vars

\* Requests to GET /api/v1/crop-prices.
NextEndpoint ==
    \/ RejectQuery
    \/ fetch_crop_prices
    \/ PrimaryAttempt
    \/ BackoffSleep
    \/ Failover
    \/ Respond

SpecEndpoint == Init /\ [][NextEndpoint]_vars

(***************************************************************************)
(* Observations on the record of calls, used by the properties below.      *)
(***************************************************************************)
\* The invocation took the live path: the state argument was accepted and
\* use_mock_only resolved false.
LiveMode ==
    /\ pc # "idle"
    /\ result # Raised("ValueError")
    /\ ~(req.use_mock_only = "True" \/ (req.use_mock_only = None /\ DEV_MODE))

\* The adapter named by data_source, and the other one.
PrimaryName == IF str_lower(req.data_source) = "agmarknet" THEN "agmarknet" ELSE "enam"
OtherName == IF str_lower(req.data_source) = "agmarknet" THEN "enam" ELSE "agmarknet"

IsPrimaryCall(c) == c.op = "fetch" /\ c.source = PrimaryName
IsOtherCall(c) == c.op = "fetch" /\ c.source = OtherName
IsSleep(c) == c.op = "sleep"
IsMock(c) == c.op = "mock"
FailedRetryably(c) == c.outcome \in {"NetworkError", "DataSourceError"}
GaveRecords(c) == c.outcome = "records" /\ c.n > 0

CountCalls(Test(_)) == Cardinality({i \in 1..Len(calls) : Test(calls[i])})

\* calls[i] is the k-th call of the primary adapter.
PrimaryIndex(i) == Cardinality({j \in 1..i : IsPrimaryCall(calls[j])})

RECURSIVE SumTo(_)
SumTo(n) == IF n <= 0 THEN 0 ELSE n + SumTo(n - 1)

RECURSIVE SleepSum(_)
SleepSum(i) ==
    IF i = 0 THEN 0
    ELSE (IF IsSleep(calls[i]) THEN calls[i].n ELSE 0) + SleepSum(i - 1)
TotalSleep == SleepSum(Len(calls))

\* Every one of MAX_RETRIES primary attempts raised NetworkError or DataSourceError.
AllPrimaryFailed ==
    /\ CountCalls(IsPrimaryCall) = MAX_RETRIES
    /\ \A i \in 1..Len(calls) : IsPrimaryCall(calls[i]) => FailedRetryably(calls[i])

(***************************************************************************)
(* C1..C10                                                                 *)
(***************************************************************************)

\* C1: in live mode the primary adapter is called at most MAX_RETRIES times;
\* when the retry loop is over and every attempt raised NetworkError or
\* DataSourceError it was called exactly MAX_RETRIES times; an attempt that
\* returned a non-empty list is the last primary attempt and leaves the loop.
C1_RetryCap ==
    LiveMode =>
        /\ CountCalls(IsPrimaryCall) <= MAX_RETRIES
        /\ ( /\ pc \in {"failover", "done"}
             /\ result.kind # "raise"
             /\ \A i \in 1..Len(calls) :
                    IsPrimaryCall(calls[i]) => FailedRetryably(calls[i]) )
           => CountCalls(IsPrimaryCall) = MAX_RETRIES
        /\ \A i \in 1..Len(calls) :
              (IsPrimaryCall(calls[i]) /\ GaveRecords(calls[i]))
                  => /\ \A j \in (i + 1)..Len(calls) : ~IsPrimaryCall(calls[j])
                     /\ pc \notin {"primary", "sleep"}

C1_Witness ==
    /\ LiveMode /\ pc = "done" /\ AllPrimaryFailed
    /\ MAX_RETRIES = 3

\* C2: a failed primary attempt number k < MAX_RETRIES is followed by exactly
\* one sleep of RETRY_DELAY * k seconds and then by attempt k + 1; nothing
\* sleeps after attempt MAX_RETRIES; every sleep directly follows a failed
\* primary attempt; when all attempts failed the sleeps add up to
\* RETRY_DELAY * (1 + ... + (MAX_RETRIES - 1)), which is 6.
C2_Backoff ==
    /\ \A i \in 1..Len(calls) :
          (IsPrimaryCall(calls[i]) /\ FailedRetryably(calls[i])) =>
              IF PrimaryIndex(i) < MAX_RETRIES
              THEN /\ IF i = Len(calls)
                      THEN pc = "sleep"
                      ELSE calls[i + 1] = SleepCall(RETRY_DELAY * PrimaryIndex(i))
                   /\ IF i + 1 >= Len(calls)
                      THEN pc \in {"sleep", "primary"}
                      ELSE IsPrimaryCall(calls[i + 2])
              ELSE /\ pc # "sleep"
                   /\ i < Len(calls) => ~IsSleep(calls[i + 1])
    /\ \A i \in 1..Len(calls) :
          IsSleep(calls[i]) =>
              i > 1 /\ IsPrimaryCall(calls[i - 1]) /\ FailedRetryably(calls[i - 1])
    /\ (pc \in {"failover", "done"} /\ AllPrimaryFailed) =>
          /\ TotalSleep = RETRY_DELAY * SumTo(MAX_RETRIES - 1)
          /\ TotalSleep = 6

C2_Witness ==
    /\ pc = "done" /\ AllPrimaryFailed
    /\ CountCalls(IsSleep) = 2 /\ TotalSleep = 6

\* C3: the calls of an invocation are ordered: primary calls (with their
\* sleeps), then at most one call of the other source, then at most one
\* mock-provider call; the mock provider is not called while the failover
\* call is still to come.
C3_StrictOrder ==
    /\ CountCalls(IsOtherCall) <= 1
    /\ CountCalls(IsMock) <= 1
    /\ \A i \in 1..Len(calls), j \in 1..Len(calls) :
          i < j =>
              /\ ~(IsOtherCall(calls[i]) /\ (IsPrimaryCall(calls[j]) \/ IsSleep(calls[j])))
              /\ ~(IsMock(calls[i]) /\ calls[j].op \in {"fetch", "sleep"})
    /\ CountCalls(IsMock) > 0 => pc = "done"
    /\ CountCalls(IsOtherCall) > 0 => pc = "done"

C3_Witness ==
    /\ LiveMode /\ pc = "done"
    /\ CountCalls(IsPrimaryCall) = MAX_RETRIES
    /\ CountCalls(IsOtherCall) = 1
    /\ CountCalls(IsMock) = 1
    /\ IsMock(calls[Len(calls)]) /\ IsOtherCall(calls[Len(calls) - 1])

\* C4: with a non-empty state, data_source agmarknet or enam, and adapter
\* calls that only return records or raise NetworkError / DataSourceError,
\* the invocation never raises; it ends by returning a PriceResponse, which
\* has success = FALSE when no step yielded a record.
NoUnexpectedOutcome ==
    \A i \in 1..Len(calls) :
        calls[i].op = "fetch" =>
            calls[i].outcome \in {"records", "NetworkError", "DataSourceError"}
NoStepGaveRecords ==
    \A i \in 1..Len(calls) : calls[i].op \in {"fetch", "mock"} => calls[i].n = 0

C5_Failover ==
    (LiveMode /\ str_lower(req.data_source) \in {"agmarknet", "enam"}) =>
        /\ pc = "failover" => (prices = <<>> /\ last_error # NoError)
        /\ CountCalls(IsOtherCall) <= 1
        /\ \A i \in 1..Len(calls) :
              (calls[i].op = "fetch" /\ ~IsPrimaryCall(calls[i])) =>
                  /\ calls[i].source = (IF str_lower(req.data_source) = "agmarknet"
                                        THEN "enam" ELSE "agmarknet")
                  /\ \A j \in (i + 1)..Len(calls) : IsMock(calls[j])
        /\ (pc = "done" /\ result.kind = "return") =>
              /\ CountCalls(IsOtherCall) = 1
                    <=> /\ ~\E i \in 1..Len(calls) :
                              IsPrimaryCall(calls[i]) /\ GaveRecords(calls[i])
                        /\ last_error # NoError
              /\ last_error # NoError
                    <=> \E i \in 1..Len(calls) :
                            IsPrimaryCall(calls[i]) /\ FailedRetryably(calls[i])
        /\ (pc = "done" /\ CountCalls(IsOtherCall) = 1) =>
              /\ result.kind = "return"
              /\ (\E i \in 1..Len(calls) :
                      IsOtherCall(calls[i]) /\ calls[i].outcome # "records")
                    => (CountCalls(IsMock) = 1 <=> req.use_mock_fallback)

C5_Witness ==
    /\ LiveMode /\ pc = "done"
    /\ str_lower(req.data_source) = "enam"
    /\ \E i \in 1..Len(calls) :
          /\ calls[i].op = "fetch" /\ calls[i].source = "agmarknet"
          /\ calls[i].outcome = "DataNotFoundError"
    /\ result.kind = "return"

CatalogHasMatch ==
    \E i \in 1..Len(all_crops) :
        /\ str_lower(all_crops[i].state) = str_lower(str_strip(req.state))
        /\ req.district # None =>
              str_lower(all_crops[i].district) = str_lower(str_strip(req.district))
        /\ req.crop_name # None =>
              str_lower(all_crops[i].crop_name) = str_lower(str_strip(req.crop_name))

AllLiveFailed ==
    /\ LiveMode /\ pc = "done" /\ AllPrimaryFailed
    /\ \E i \in 1..Len(calls) : IsOtherCall(calls[i]) /\ calls[i].outcome # "records"

C7_MockDecides ==
    (AllLiveFailed /\ req.use_mock_fallback) =>
        /\ result.kind = "return"
        /\ result.response.success <=> CatalogHasMatch

C7_Witness ==
    /\ AllLiveFailed /\ req.use_mock_fallback
    /\ req.district # None /\ req.crop_name # None
    /\ result.response.success /\ result.response.count = 1

\* C8: every returned PriceResponse has success = TRUE exactly when its
\* data holds at least one record, that is when its count is positive.
C8_SuccessIffData ==
    (pc = "done" /\ result.kind = "return") =>
        /\ result.response.success <=> Len(result.response.data) > 0
        /\ result.response.success <=> result.response.count > 0

C8_Witness ==
    /\ LiveMode /\ pc = "done" /\ result.kind = "return"
    /\ \E i \in 1..Len(calls) : calls[i].op = "fetch" /\ GaveRecords(calls[i])
    /\ ~result.response.success /\ result.response.data = <<>>

\* C9: every constructed PriceResponse has count = len(data), whatever
\* count the constructor was given.
C9_CountIsLen ==
    built.obj.ok =>
        /\ built.obj.data = built.data
        /\ built.obj.count = Len(built.data)

C9_Witness ==
    /\ built.obj.ok
    /\ built.data # <<>>
    /\ built.count # Len(built.data)

\* C10: a state that is empty or blank makes the invocation raise
\* ValueError without any call, whatever the other arguments and DEV_MODE.
Blank(s) == \A i \in 1..Len(s) : CharAt(s, i) = " "

C10_StateRequired ==
    (pc # "idle" /\ Blank(req.state)) =>
        /\ pc = "done"
        /\ result = Raised("ValueError")
        /\ calls = <<>>

C10_Witness ==
    /\ pc = "done" /\ req.state = "  "
    /\ req.use_mock_only = "True" /\ DEV_MODE
    /\ result = Raised("ValueError")

(***************************************************************************)
(* C11..C20                                                                *)
(***************************************************************************)
\* The invocation took the mock-only path: the state argument was accepted
\* and use_mock_only is True, or is None while DEV_MODE is set.
MockOnlyMode ==
    /\ pc # "idle"
    /\ ~Blank(req.state)
    /\ (req.use_mock_only = "True" \/ (req.use_mock_only = None /\ DEV_MODE))

\* C11: on the mock-only path no adapter is called and nothing sleeps: the
\* invocation is over at once with a response, the only call on record is
\* the mock provider's, and no local of the live path was touched, so no
\* outcome of a live source can reach the response. With use_mock_only
\* False the live path is taken, also when DEV_MODE is set.
C11_MockOnlyNoNetwork ==
    /\ MockOnlyMode =>
          /\ pc = "done"
          /\ result.kind = "return"
          /\ \A i \in 1..Len(calls) : IsMock(calls[i])
          /\ Len(calls) = 1
          /\ attempt = 0 /\ prices = <<>> /\ last_error = NoError
    /\ ( /\ pc # "idle" /\ ~Blank(req.state)
         /\ req.use_mock_only = "False"
         /\ str_lower(req.data_source) \in {"agmarknet", "enam"} )
       => /\ pc \in {"primary", "sleep", "failover", "done"}
          /\ pc = "done" => (calls # <<>> /\ calls[1].op = "fetch")

C11_Witness ==
    /\ MockOnlyMode /\ req.use_mock_only = None /\ DEV_MODE
    /\ pc = "done" /\ result.kind = "return" /\ result.response.success

\* C12: on the mock-only path the data of the response are the catalog
\* entries whose state, district (if given) and crop_name (if given) equal
\* the request's case-insensitively, in catalog order: 5 entries for
\* state Delhi, one for Delhi / North Delhi / Wheat.
Wanted(entry) ==
    /\ str_lower(entry.state) = str_lower(str_strip(req.state))
    /\ req.district # None =>
          str_lower(entry.district) = str_lower(str_strip(req.district))
    /\ req.crop_name # None =>
          str_lower(entry.crop_name) = str_lower(str_strip(req.crop_name))

\* A record without the fields get_mock_prices adds to a catalog entry.
AsEntry(r) ==
    [crop_name |-> r.crop_name, min_price |-> r.min_price, max_price |-> r.max_price,
     modal_price |-> r.modal_price, market_name |-> r.market_name,
     district |-> r.district, state |-> r.state]

C12_MockOnlyData ==
    MockOnlyMode =>
        LET data == result.response.data
            want == SelectSeq(all_crops, Wanted)
        IN  /\ Len(data) = Len(want)
            /\ \A i \in 1..Len(data) : AsEntry(data[i]) = want[i]
            /\ (str_lower(str_strip(req.state)) = "delhi"
                  /\ req.district = None /\ req.crop_name = None)
                => Len(data) = 5
            /\ (str_lower(str_strip(req.state)) = "delhi"
                  /\ req.district # None /\ req.crop_name # None
                  /\ str_lower(str_strip(req.district)) = "north delhi"
                  /\ str_lower(str_strip(req.crop_name)) = "wheat")
                => (Len(data) = 1 /\ data[1].market_name = "Azadpur Mandi")

C12_Witness ==
    /\ MockOnlyMode /\ pc = "done"
    /\ req.district = "north delhi" /\ req.crop_name = "WHEAT"
    /\ Len(result.response.data) = 1

Repeated ==
    /\ prev.set
    /\ pc = "done"
    /\ req = prev.req
    /\ result.kind = "return"
    /\ prev.result.kind = "return"

\* C14 as stated: two successive mock-only calls with the same arguments,
\* price_date given or omitted, return the same data, success, count, state,
\* district, crop_name and message.  (fetched_at is not part of the modelled
\* response.)  Fails when price_date is omitted and the day changes between
\* the calls: the records carry date.today().
C14_Idempotent ==
    Repeated => result.response = prev.result.response

\* C14 amended: two successive mock-only calls with the same arguments
\* return the same data, success, count, state, district, crop_name and
\* message provided price_date is given or both calls run on the same day.
C14_IdempotentSameDay ==
    (Repeated /\ (req.price_date # None \/ called_on = prev.day))
        => result.response = prev.result.response

C14_Witness ==
    /\ Repeated
    /\ req.price_date = None
    /\ called_on = prev.day
    /\ result.response.success
    /\ result.response.data = prev.result.response.data

\* The day changed between two calls without a price_date that found data.
C14_AcrossMidnight ==
    /\ Repeated
    /\ req.price_date = None
    /\ called_on # prev.day
    /\ result.response.success

\* C16: every CropPrice that is constructed has
\* 0 <= min_price <= modal_price <= max_price, and construction fails (no
\* object) for every input with a negative price, with max_price <
\* min_price or with modal_price outside [min_price, max_price].
C16_PriceOrder ==
    LET a == crop_price.args
    IN  /\ crop_price.ok =>
              /\ 0 <= a.min_price
              /\ a.min_price <= a.modal_price
              /\ a.modal_price <= a.max_price
        /\ (\/ a.min_price < 0 \/ a.max_price < 0 \/ a.modal_price < 0
            \/ a.max_price < a.min_price
            \/ a.modal_price < a.min_price
            \/ a.modal_price > a.max_price) => ~crop_price.ok

C16_Witness ==
    /\ crop_price.ok
    /\ crop_price.args.min_price = 0
    /\ crop_price.args.modal_price = 1
    /\ crop_price.args.max_price = 2

\* A construction refused because of the modal price alone.
C16_Refused ==
    /\ ~crop_price.ok
    /\ crop_price.args.min_price = 0
    /\ crop_price.args.max_price = 1
    /\ crop_price.args.modal_price = 2

\* C17: every constructed CropPrice has a non-empty crop_name, market_name,
\* district and state.  The four fields are plain `str`: nothing refuses "".
C17_NonEmptyNames ==
    crop_price.ok =>
        /\ crop_price.args.crop_name # ""
        /\ crop_price.args.market_name # ""
        /\ crop_price.args.district # ""
        /\ crop_price.args.state # ""

\* C15: a primary-adapter attempt that raises anything but NetworkError or
\* DataSourceError ends the invocation at once with CropPriceError: it is
\* the last call on record (no further attempt, sleep, failover call or
\* mock-provider call, whatever use_mock_fallback is) and no PriceResponse
\* is returned.
Unexpected(c) ==
    /\ IsPrimaryCall(c)
    /\ c.outcome \notin {"records", "NetworkError", "DataSourceError"}

C15_AbortOnUnexpected ==
    LiveMode =>
        \A i \in 1..Len(calls) :
            Unexpected(calls[i]) =>
                /\ i = Len(calls)
                /\ pc = "done"
                /\ result = Raised("CropPriceError")

C15_Witness ==
    /\ LiveMode /\ pc = "done"
    /\ req.use_mock_fallback
    /\ Len(calls) = 3
    /\ IsPrimaryCall(calls[1]) /\ calls[1].outcome = "NetworkError"
    /\ IsSleep(calls[2])
    /\ Unexpected(calls[3])
    /\ result = Raised("CropPriceError")

(***************************************************************************)
(* The endpoint                                                            *)
(***************************************************************************)
\* The handler ran and the response is out.
Responded == pc = "responded" /\ result # NoResult

NoData ==
    /\ result.kind = "return"
    /\ (~result.response.success \/ result.response.count = 0)

\* C18: the endpoint answers 404 whenever the orchestrator returns a
\* response with success = FALSE or count = 0, and 200 exactly when it
\* returns success = TRUE with at least one record.
C18_NotFoundOrOk ==
    Responded =>
        /\ NoData => status_code = HTTP_404_NOT_FOUND
        /\ status_code = HTTP_200_OK <=>
              /\ result.kind = "return"
              /\ result.response.success
              /\ result.response.count >= 1

\* C19: the endpoint answers 400 when the orchestrator rejects the input
\* with ValueError (state empty after trimming).
C19_BadRequest ==
    (Responded /\ result = Raised("ValueError")) =>
        status_code = HTTP_400_BAD_REQUEST

\* Every adapter call raised NetworkError, there was at least one, and no
\* data came back.
NetworkFailure ==
    /\ \E i \in 1..Len(calls) : calls[i].op = "fetch"
    /\ \A i \in 1..Len(calls) :
          calls[i].op = "fetch" => calls[i].outcome = "NetworkError"
    /\ result.kind = "raise" \/ NoData

\* C20: the endpoint answers 503 when every adapter call made by the
\* orchestrator raised NetworkError and no data is returned.
C20_ServiceUnavailable ==
    (Responded /\ NetworkFailure) => status_code = HTTP_503_SERVICE_UNAVAILABLE

(***************************************************************************)
(* C21..C30                                                                *)
(***************************************************************************)
\* Items of the batch that CropPrice accepts.
ValidItems(raw_data) ==
    SelectSeq(raw_data, LAMBDA item : CropPriceValid(item))

\* C21: parsing a batch with some malformed and at least one valid record
\* does not abort the batch: the valid records are returned, the malformed
\* ones dropped, and DataValidationError is raised only when all fail.
C21_PartialBatch ==
    LET good == ValidItems(parsed.raw_data)
    IN  /\ good # <<>> =>
              (parsed.out.raised = "" /\ parsed.out.value = good)
        /\ parsed.out.raised = DataValidationError =>
              (parsed.raw_data # <<>> /\ good = <<>>)

\* What parse_price_data does: every item valid, or DataValidationError.
C21_AllOrNothing ==
    IF ValidItems(parsed.raw_data) = parsed.raw_data
    THEN parsed.out.raised = "" /\ parsed.out.value = parsed.raw_data
    ELSE parsed.out.raised = DataValidationError

\* The trimmed, title-cased form of a request value; None stays None.
Normal(s) == IF s = None THEN None ELSE str_title(str_strip(s))

\* C22: every PriceResponse returned by get_crop_prices (mock-only or live,
\* success or failure) echoes the trimmed, title-cased state, district and
\* crop_name of the request (None when not given), and every adapter call
\* and mock-provider call is made with these same values.
C22_Normalized ==
    (pc # "idle" /\ result # Raised("ValueError")) =>
        LET st == Normal(req.state)
            dist == Normal(req.district)
            crop == Normal(req.crop_name)
        IN  /\ \A i \in 1..Len(calls) :
                  calls[i].op \in {"fetch", "mock"} =>
                      calls[i].args = <<st, dist, crop>>
            /\ result.kind = "return" =>
                  /\ result.response.state = st
                  /\ result.response.district = dist
                  /\ result.response.crop_name = crop

\* A live success and a failure after the mock fallback, both with values
\* that normalization changes.
C22_Witness ==
    /\ pc = "done" /\ LiveMode
    /\ req.state = " delhi " /\ req.district = "north delhi" /\ req.crop_name = "WHEAT"
    /\ result.kind = "return" /\ result.response.success
    /\ result.response.state = "Delhi"
    /\ result.response.district = "North Delhi"
    /\ result.response.crop_name = "Wheat"
    /\ calls[1].op = "fetch"
    /\ calls[1].args = <<"Delhi", "North Delhi", "Wheat">>

\* The primary's attempt number MAX_RETRIES returned an empty list.
FinalAttemptEmpty ==
    \E i \in 1..Len(calls) :
        /\ IsPrimaryCall(calls[i])
        /\ PrimaryIndex(i) = MAX_RETRIES
        /\ calls[i].outcome = "records"
        /\ calls[i].n = 0

SomePrimaryFailed ==
    \E i \in 1..Len(calls) : IsPrimaryCall(calls[i]) /\ FailedRetryably(calls[i])

C24_FailoverAfterEmpty ==
    /\ LiveMode /\ pc = "done"
    /\ FinalAttemptEmpty
    /\ SomePrimaryFailed
    /\ CountCalls(IsOtherCall) = 1

\* C25: whichever path produced them, every record in the data of a
\* returned PriceResponse has the requested district (when district is
\* set) and the requested crop_name (when crop_name is set), compared
\* case-insensitively.
C25_PostFiltered ==
    (pc = "done" /\ result.kind = "return") =>
        LET data == result.response.data
            wantDistrict == IF req.district = None THEN None
                            ELSE str_lower(str_strip(req.district))
            wantCrop == IF req.crop_name = None THEN None
                        ELSE str_lower(str_strip(req.crop_name))
        IN  \A i \in 1..Len(data) :
                /\ req.district # None => str_lower(data[i].district) = wantDistrict
                /\ req.crop_name # None => str_lower(data[i].crop_name) = wantCrop

\* A record of the failover source that passes both filters.
C25_Witness ==
    /\ pc = "done" /\ LiveMode
    /\ req.district = "north delhi" /\ req.crop_name = "WHEAT"
    /\ result.kind = "return"
    /\ Len(result.response.data) = 1
    /\ CountCalls(IsOtherCall) = 1
    /\ CountCalls(IsMock) = 0

\* A live record of another crop was dropped by the post-filter.
C25_Dropped ==
    /\ pc = "done" /\ LiveMode
    /\ req.district = "Ludhiana" /\ req.crop_name = "WHEAT"
    /\ \E i \in 1..Len(calls) : calls[i].op = "fetch" /\ GaveRecords(calls[i])
    /\ result.kind = "return"
    /\ result.response.data = <<>>

\* A record that has the requested district and crop_name (where given).
MatchesRequest(r) ==
    /\ req.district # None =>
          str_lower(r.district) = str_lower(str_strip(req.district))
    /\ req.crop_name # None =>
          str_lower(r.crop_name) = str_lower(str_strip(req.crop_name))

\* A live source returned records and none of them matches the request.
LiveRecordsAllMismatch ==
    /\ LiveMode /\ pc = "done" /\ result.kind = "return"
    /\ \E i \in 1..Len(calls) :
          /\ calls[i].op = "fetch" /\ GaveRecords(calls[i])
          /\ \A k \in 1..Len(calls[i].value) : ~MatchesRequest(calls[i].value[k])

\* C27: the mock-fallback decision precedes the post-filter: when a live
\* source returned a non-empty list none of whose records matches the
\* requested district or crop_name, the response has success = FALSE and
\* count = 0 and the mock provider was never called, even with
\* use_mock_fallback true and matching entries in the catalog.
C27_NoMockAfterLiveRecords ==
    LiveRecordsAllMismatch =>
        /\ CountCalls(IsMock) = 0
        /\ ~result.response.success
        /\ result.response.count = 0
        /\ result.response.data = <<>>

C27_Witness ==
    /\ LiveRecordsAllMismatch
    /\ req.use_mock_fallback
    /\ CatalogHasMatch
    /\ CountCalls(IsMock) = 0
    /\ ~result.response.success

\* s ends with t.
EndsWith(s, t) ==
    Len(s) >= Len(t) /\ SubSeq(s, Len(s) - Len(t) + 1, Len(s)) = t

\* The error text of the primary's last call.
LastPrimaryErrorText ==
    LET i == CHOOSE k \in 1..Len(calls) :
                 IsPrimaryCall(calls[k]) /\ PrimaryIndex(k) = CountCalls(IsPrimaryCall)
    IN  IF calls[i].outcome = "NetworkError"
        THEN NetworkError(PrimaryName).text
        ELSE DataSourceError(PrimaryName).text

\* Exactly MAX_RETRIES primary calls, one failover call, and a failure
\* response that names the last primary error.
ExhaustedLive ==
    /\ CountCalls(IsPrimaryCall) = MAX_RETRIES
    /\ CountCalls(IsOtherCall) = 1
    /\ CountCalls(IsMock) = 0
    /\ result.kind = "return"
    /\ ~result.response.success
    /\ result.response.count = 0
    /\ EndsWith(result.response.message, LastPrimaryErrorText)

\* Every record of a successful response is an entry of the mock catalog.
OnlyCatalogRecords ==
    (pc = "done" /\ result.kind = "return" /\ result.response.success) =>
        \A i \in 1..Len(result.response.data) :
            \E k \in 1..Len(all_crops) : AsEntry(result.response.data[i]) = all_crops[k]

\* C28 as stated: with the adapters as written, every live-mode invocation
\* with use_mock_fallback false makes exactly MAX_RETRIES primary calls and
\* one failover call and returns success = FALSE, count = 0 with the last
\* primary error in its message; every successful response holds only
\* mock-catalog records.  Fails for a data_source that names no adapter:
\* no call is made and CropPriceError is raised.
C28_StubsAlwaysExhaust ==
    /\ (LiveMode /\ pc = "done" /\ ~req.use_mock_fallback) => ExhaustedLive
    /\ OnlyCatalogRecords

\* C28 amended: the same, for a data_source that names agmarknet or enam
\* (case-insensitively).
C28_StubsExhaustKnownSource ==
    /\ (LiveMode /\ pc = "done" /\ ~req.use_mock_fallback
           /\ str_lower(req.data_source) \in {"agmarknet", "enam"}) => ExhaustedLive
    /\ OnlyCatalogRecords

C28_Witness ==
    /\ LiveMode /\ pc = "done" /\ ~req.use_mock_fallback
    /\ req.data_source = "Enam"
    /\ ExhaustedLive
    /\ calls[Len(calls)].source = "agmarknet"
    /\ calls[Len(calls)].outcome = "DataSourceError"

\* A primary attempt that returned an empty list.
EmptyReturn(c) == IsPrimaryCall(c) /\ c.outcome = "records" /\ c.n = 0

\* The error last_error must hold: that of the latest primary attempt that
\* raised NetworkError or DataSourceError, NoError when there is none.
LastFailureType ==
    LET failed == {i \in 1..Len(calls) :
                      IsPrimaryCall(calls[i]) /\ FailedRetryably(calls[i])}
    IN  IF failed = {} THEN NoError.type
        ELSE calls[CHOOSE i \in failed : \A j \in failed : j <= i].outcome

\* C29: a primary attempt that returns an empty list without raising is
\* not final: the next attempt, if one remains, follows at once with no
\* sleep, last_error stays what the latest failed attempt made it, and the
\* loop still ends after MAX_RETRIES attempts; the sleeps of an invocation
\* add up to at most RETRY_DELAY * (1 + ... + (MAX_RETRIES - 1)) and each
\* directly follows an attempt that raised NetworkError or DataSourceError.
C29_EmptyNotFinal ==
    LiveMode =>
        /\ \A i \in 1..Len(calls) :
              EmptyReturn(calls[i]) =>
                  IF PrimaryIndex(i) < MAX_RETRIES
                  THEN IF i = Len(calls)
                       THEN pc = "primary"
                       ELSE IsPrimaryCall(calls[i + 1])
                  ELSE /\ pc \in {"failover", "done"}
                       /\ i < Len(calls) => ~IsPrimaryCall(calls[i + 1])
        /\ last_error.type = LastFailureType
        /\ CountCalls(IsPrimaryCall) <= MAX_RETRIES
        /\ TotalSleep <= RETRY_DELAY * SumTo(MAX_RETRIES - 1)
        /\ \A i \in 1..Len(calls) :
              IsSleep(calls[i]) =>
                  /\ i > 1
                  /\ IsPrimaryCall(calls[i - 1])
                  /\ FailedRetryably(calls[i - 1])

\* Empty, failure, sleep, empty: the third attempt follows the sleep of the
\* second, and the failover is still to come because last_error was kept.
C29_Witness ==
    /\ LiveMode /\ pc = "failover"
    /\ Len(calls) = 4
    /\ EmptyReturn(calls[1])
    /\ IsPrimaryCall(calls[2]) /\ calls[2].outcome = "NetworkError"
    /\ IsSleep(calls[3]) /\ calls[3].n = RETRY_DELAY * 2
    /\ EmptyReturn(calls[4])
    /\ last_error.type = "NetworkError"

IsFetch(c) == c.op = "fetch"

\* The calls of an invocation stay within their caps, and an invocation
\* that is over returned a PriceResponse or raised ValueError or
\* CropPriceError.
WithinCaps ==
    /\ CountCalls(IsFetch) <= MAX_RETRIES + 1
    /\ CountCalls(IsSleep) <= MAX_RETRIES - 1
    /\ CountCalls(IsMock) <= 1
    /\ pc = "done" =>
          \/ result.kind = "return" /\ result.response.ok
          \/ result.kind = "raise" /\ result.exc \in {"ValueError", "CropPriceError"}

\* C30: when every adapter call, sleep and mock-provider call returns or
\* raises, every invocation of get_crop_prices terminates, with a
\* PriceResponse or with ValueError / CropPriceError, after at most
\* MAX_RETRIES + 1 adapter calls, MAX_RETRIES - 1 sleeps and one
\* mock-provider call.
C30_Terminates ==
    /\ []WithinCaps
    /\ (pc # "idle") ~> (pc = "done")

\* The longest invocation: every cap is met.
C30_Witness ==
    /\ pc = "done"
    /\ CountCalls(IsFetch) = MAX_RETRIES + 1
    /\ CountCalls(IsSleep) = MAX_RETRIES - 1
    /\ CountCalls(IsMock) = 1
    /\ result.kind = "return"

\* The retry loop is over and every primary attempt raised NetworkError or
\* DataSourceError.
PrimaryExhausted ==
    /\ LiveMode /\ pc \in {"failover", "done"}
    /\ CountCalls(IsPrimaryCall) > 0
    /\ \A i \in 1..Len(calls) : IsPrimaryCall(calls[i]) => FailedRetryably(calls[i])

\* C26: the retry cap, retry delay and request timeout in use are the
\* environment-driven values of config.py: CROP_PRICE_MAX_RETRIES sets the
\* number of primary attempts, CROP_PRICE_RETRY_DELAY the backoff delay and
\* CROP_PRICE_TIMEOUT the HTTP timeout.
C26_EnvDriven ==
    /\ CountCalls(IsFetch) > 0 => REQUEST_TIMEOUT = config_REQUEST_TIMEOUT
    /\ PrimaryExhausted =>
          /\ CountCalls(IsPrimaryCall) = config_MAX_RETRIES
          /\ \A i \in 1..Len(calls) :
                IsSleep(calls[i]) => calls[i].n = config_RETRY_DELAY * PrimaryIndex(i)

\* What the code does: the three values in use are the module constants of
\* crop_price_fetcher.py, whatever the environment holds.
C26_ModuleConstants ==
    PrimaryExhausted =>
        /\ CountCalls(IsPrimaryCall) = MAX_RETRIES
        /\ \A i \in 1..Len(calls) :
              IsSleep(calls[i]) => calls[i].n = RETRY_DELAY * PrimaryIndex(i)

\* The coroutines that exist: the running one and the other one.
Frames == {FrameLocals} \cup ({other} \ {NoFrame})

IsEvent(c) == c.op \in {"fetch", "sleep"}

\* The awaited calls of a frame that completed, in order.
Events(f) == SelectSeq(f.calls, IsEvent)

\* C23: under every interleaving of two invocations at their awaits, each
\* invocation's locals -- its response, its sequence of adapter calls,
\* sleeps and mock calls, and everything the rest of its run reads -- are
\* those of the same invocation run alone with the same adapter outcomes.
C23_Independent ==
    \A f \in Frames : f = (IF f.pc = "idle" THEN IdleFrame ELSE Alone(f.req, Events(f)))

\* Both invocations were suspended in their retry loops with different
\* errors behind them, and both have finished.
C23_Witness ==
    /\ other # NoFrame
    /\ pc = "done" /\ other.pc = "done"
    /\ result.kind = "return" /\ other.result.kind = "return"
    /\ req # other.req
    /\ \E i \in 1..Len(calls) : calls[i].outcome = "NetworkError"
    /\ \E i \in 1..Len(other.calls) : other.calls[i].outcome = "DataSourceError"
    /\ result.response # other.result.response

\* The records of the returned response whose state is not the echoed one.
ForeignRecords ==
    IF pc = "done" /\ result.kind = "return"
    THEN {i \in 1..Len(result.response.data) :
            str_lower(result.response.data[i].state) # str_lower(result.response.state)}
    ELSE {}

\* C31: every record in the data of a PriceResponse returned by
\* get_crop_prices has a state equal case-insensitively to the response's
\* echoed state, whichever path produced it, including when a live adapter
\* returns validated records for a different state than the one requested.
C31_RecordsOfEchoedState == ForeignRecords = {}

\* What the code gives: the records the mock provider supplied are of the
\* echoed state; records of a live adapter are kept whatever their state.
C31_MockRecordsOfEchoedState == CountCalls(IsMock) > 0 => ForeignRecords = {}

UnknownSource == str_lower(req.data_source) \notin {"agmarknet", "enam"}

\* C32: in live mode a data_source that is neither "agmarknet" nor "enam"
\* (case-insensitively) ends the invocation in its first loop iteration with
\* CropPriceError: no adapter call, no sleep, no failover, no mock call,
\* whatever use_mock_fallback is.  In mock-only mode data_source is not
\* looked at: the invocation makes its one mock call and returns the
\* mock-only response of its other arguments.
C32_UnknownSource ==
    /\ (LiveMode /\ UnknownSource) =>
          /\ pc = "done"
          /\ result = Raised("CropPriceError")
          /\ calls = <<>>
          /\ attempt = 0
          /\ last_error = NoError
    /\ (MockOnlyMode /\ UnknownSource) =>
          LET m == get_mock_prices(state, district, crop_name, req.price_date)
          IN  /\ pc = "done"
              /\ calls = <<MockCall(m, state, district, crop_name)>>
              /\ result = Returned(MockOnlyResponse(state, district, crop_name, m))

C32_Witness ==
    /\ LiveMode /\ UnknownSource
    /\ req.use_mock_fallback
    /\ pc = "done"
    /\ result = Raised("CropPriceError")

\* The mock-only half of C32 happens as well.
C32_MockOnlyReached ==
    /\ MockOnlyMode /\ UnknownSource
    /\ result.kind = "return" /\ result.response.success

====
